---- MODULE Spec2Model ----
(***************************************************************************)
(* The Book API of server.js: an Express application holding the array     *)
(* `books` in memory, with one handler per route.  Every request is        *)
(* handled to completion before the next one (Node's single thread), so    *)
(* each handler is one atomic action.                                      *)
(***************************************************************************)
EXTENDS Integers, Sequences, FiniteSets, TLC

\* The model bounds the length of `books` (the array itself is unbounded).
MaxBooks == 4

VARIABLES
    books,      \* server.js:21  the in-memory array
    req,        \* the request last answered: method, route path, req.params.id
    res,        \* the response written for it: status, content type, body
    emptyBody,  \* what express.json() leaves in req.body for a bodiless request
    deleted     \* history: some DELETE has spliced a record out of `books`

vars == <<books, req, res, emptyBody, deleted>>

----------------------------------------------------------------------------
\* Data

\* The fields a handler destructures from req.body (server.js:88, 109).
Fields == {"title", "author", "genre", "copiesAvailable"}

\* server.js:21-44
SeedBooks ==
    << [id |-> 1, title |-> "The Great Gatsby", author |-> "F. Scott Fitzgerald",
        genre |-> "Fiction", copiesAvailable |-> 5],
       [id |-> 2, title |-> "To Kill a Mockingbird", author |-> "Harper Lee",
        genre |-> "Fiction", copiesAvailable |-> 3],
       [id |-> 3, title |-> "1984", author |-> "George Orwell",
        genre |-> "Dystopian Fiction", copiesAvailable |-> 7] >>

\* A JSON object with no keys, {}.
EmptyObject == [k \in {} |-> 0]

\* A request with no body at all, and one carrying the JSON object `json`.
NoBody == [present |-> FALSE, json |-> EmptyObject]
JsonBody(json) == [present |-> TRUE, json |-> json]

\* The request bodies the model sends: none, and the tests' partial payload
\* with a title only (part_000:107, :122), carrying an id of its own as well,
\* a key no handler reads.
Payloads == { [id |-> 99, title |-> "Partial"] }
Bodies == {NoBody} \cup { JsonBody(p) : p \in Payloads }

\* The characters of the digits, by value + 1.
DigitChars == <<"0", "1", "2", "3", "4", "5", "6", "7", "8", "9">>

\* The :id segments the model sends, as sequences of characters: the decimal
\* numerals 1..MaxBooks, a non-numeric one and one with a numeric prefix.
Segs ==
    { <<DigitChars[n + 1]>> : n \in 1..MaxBooks }
        \cup { <<"a", "b", "c">>, <<"2", "x">> }

----------------------------------------------------------------------------
\* parseInt(string) with no radix, as ECMAScript defines it: leading white
\* space is skipped, a sign is read, a 0x prefix selects radix 16, and the
\* longest prefix of digits is converted; no digit at all gives NaN.

NaN == [nan |-> TRUE, val |-> 0]
Num(n) == [nan |-> FALSE, val |-> n]

\* The value of character c as a digit of the radix, -1 when it is none.
DigitValue(c, radix) ==
    LET v == CASE c = "0" -> 0 [] c = "1" -> 1 [] c = "2" -> 2 [] c = "3" -> 3
               [] c = "4" -> 4 [] c = "5" -> 5 [] c = "6" -> 6 [] c = "7" -> 7
               [] c = "8" -> 8 [] c = "9" -> 9
               [] c \in {"a", "A"} -> 10 [] c \in {"b", "B"} -> 11
               [] c \in {"c", "C"} -> 12 [] c \in {"d", "D"} -> 13
               [] c \in {"e", "E"} -> 14 [] c \in {"f", "F"} -> 15
               [] OTHER -> -1
    IN IF v < radix THEN v ELSE -1

\* The position of the first character of s, from i on, that is no white space.
RECURSIVE SkipWhiteSpace(_, _)
SkipWhiteSpace(s, i) ==
    IF i <= Len(s) /\ s[i] = " " THEN SkipWhiteSpace(s, i + 1) ELSE i

\* The position after the last of the digits of the radix that start at i.
RECURSIVE DigitsEnd(_, _, _)
DigitsEnd(s, radix, i) ==
    IF i <= Len(s) /\ DigitValue(s[i], radix) >= 0
    THEN DigitsEnd(s, radix, i + 1)
    ELSE i

\* The value of the digits s[i..j-1], continuing from acc.
RECURSIVE DigitsToInt(_, _, _, _, _)
DigitsToInt(s, radix, i, j, acc) ==
    IF i >= j THEN acc
    ELSE DigitsToInt(s, radix, i + 1, j, acc * radix + DigitValue(s[i], radix))

parseInt(str) ==
    LET t == SkipWhiteSpace(str, 1)
        signed == t <= Len(str) /\ str[t] \in {"+", "-"}
        sign == IF signed /\ str[t] = "-" THEN -1 ELSE 1
        u == IF signed THEN t + 1 ELSE t
        hex == u + 1 <= Len(str) /\ str[u] = "0" /\ str[u + 1] \in {"x", "X"}
        radix == IF hex THEN 16 ELSE 10
        first == IF hex THEN u + 2 ELSE u
        end == DigitsEnd(str, radix, first)
    IN IF end = first THEN NaN
       ELSE Num(sign * DigitsToInt(str, radix, first, end, 0))

\* const bookId = parseInt(req.params.id), for every :id segment the model
\* sends.
bookIds == [seg \in Segs |-> parseInt(seg)]

\* m.id === bookId: NaN is equal to nothing.
StrictEquals(id, bookId) == ~bookId.nan /\ id = bookId.val

\* The first position from i on whose record has the id, 0 when there is none.
RECURSIVE firstFrom(_, _, _)
firstFrom(bs, bookId, i) ==
    IF i > Len(bs) THEN 0
    ELSE IF StrictEquals(bs[i].id, bookId) THEN i
    ELSE firstFrom(bs, bookId, i + 1)

\* Array.prototype.findIndex(m => m.id === bookId), 1-based; 0 stands for -1.
findIndex(bs, bookId) == firstFrom(bs, bookId, 1)

\* splice(bookIndex) with the delete count forgotten: everything from i on goes.
splice_ToEnd(bs, i) == SubSeq(bs, 1, i - 1)

\* Array.prototype.splice(bookIndex, 1): the array without element i.
splice(bs, i) == SubSeq(bs, 1, i - 1) \o SubSeq(bs, i + 1, Len(bs))

\* The new id taken as books.length, the + 1 forgotten.
newBook_Length(bs, body) ==
    [k \in {"id"} \cup (DOMAIN body \cap Fields) |->
        IF k = "id" THEN Len(bs) ELSE body[k]]

\* The new id taken as the largest id in use plus one.
newBook_MaxId(bs, body) ==
    LET ids == { bs[i].id : i \in 1..Len(bs) }
        top == IF ids = {} THEN 0 ELSE CHOOSE m \in ids : \A n \in ids : n <= m
    IN [k \in {"id"} \cup (DOMAIN body \cap Fields) |->
          IF k = "id" THEN top + 1 ELSE body[k]]

\* The object literal of app.post: { id: books.length + 1, title, author,
\* genre, copiesAvailable } with the fields destructured from the body.  A
\* field the body lacks is undefined, and JSON leaves it out.
newBook(bs, body) ==
    [k \in {"id"} \cup (DOMAIN body \cap Fields) |->
        IF k = "id" THEN Len(bs) + 1 ELSE body[k]]

\* The record built as { id: bookId, ...req.body }: every key of the body is
\* stored, and an id in the body replaces the one from the path.
updatedBook_Spread(bookId, body) ==
    [k \in {"id"} \cup DOMAIN body |->
        IF k \in DOMAIN body THEN body[k] ELSE bookId]

\* The object literal of app.put: { id: bookId, title, author, genre,
\* copiesAvailable }, built the same way; nothing of the old record is read.
updatedBook(bookId, body) ==
    [k \in {"id"} \cup (DOMAIN body \cap Fields) |->
        IF k = "id" THEN bookId ELSE body[k]]

\* req.body as express.json() hands it to a handler.  A request without a
\* body is not parsed: body-parser 1.x (Express 4) leaves {} there,
\* body-parser 2.x (Express 5) leaves undefined.
reqBody(body) ==
    IF body.present THEN [defined |-> TRUE, json |-> body.json]
    ELSE IF emptyBody = "object" THEN [defined |-> TRUE, json |-> EmptyObject]
    ELSE [defined |-> FALSE, json |-> EmptyObject]

----------------------------------------------------------------------------
\* Requests and responses

ItemPath == "/api/books/:id"

\* The method and the route path of a request, with req.params.id on the
\* item route (no characters on the others).  The body is the parameter of
\* the handler's action.
Request(method, path, id) == [method |-> method, path |-> path, id |-> id]

\* A response is <<status code, content type, body>>.
Status(r) == r[1]
Type(r) == r[2]
Body(r) == r[3]

\* res.status(s).json(body)
Json(status, body) == <<status, "json", body>>

\* Express's own answers: the final handler's page for a request no route
\* matches, and for an exception a handler throws.
Html(status, text) == <<status, "html", text>>

\* A call that is no HTTP request writes no response.
NoResponse == <<0, "none", "">>

BookNotFound == Json(404, [error |-> "Book not found"])

Welcome ==
    Json(200, [message |-> "Welcome to the Book API",
               endpoints |-> [getAll |-> "Get all books",
                              getOne |-> "Get a specific book by ID"]])

----------------------------------------------------------------------------

Init ==
    /\ books = SeedBooks
    /\ req = Request("GET", "/", <<>>)
    /\ res = Welcome
    /\ emptyBody \in {"object", "undefined"}
    /\ deleted = FALSE

\* app.get('/')
GetRoot ==
    /\ req' = Request("GET", "/", <<>>)
    /\ res' = Welcome
    /\ UNCHANGED <<books, emptyBody, deleted>>

\* app.get('/api/books')
GetBooks ==
    /\ req' = Request("GET", "/api/books", <<>>)
    /\ res' = Json(200, books)
    /\ UNCHANGED <<books, emptyBody, deleted>>

\* app.get('/api/books/:id'); books.find returns the first match.
GetBook(seg) ==
    LET bookId == bookIds[seg]
        i == findIndex(books, bookId)
    IN /\ req' = Request("GET", ItemPath, seg)
       /\ res' = IF i # 0 THEN Json(200, books[i]) ELSE BookNotFound
       /\ UNCHANGED <<books, emptyBody, deleted>>

\* app.post('/api/books')
PostBook(body) ==
    LET b == reqBody(body)
        book == newBook(books, b.json)
    IN /\ Len(books) < MaxBooks
       /\ req' = Request("POST", "/api/books", <<>>)
       /\ IF b.defined
          THEN /\ books' = Append(books, book)
               /\ res' = Json(201, book)
          ELSE \* destructuring undefined throws a TypeError
               /\ books' = books
               /\ res' = Html(500, "TypeError")
       /\ UNCHANGED <<emptyBody, deleted>>

\* app.put('/api/books/:id')
PutBook(seg, body) ==
    LET bookId == bookIds[seg]
        b == reqBody(body)
        bookIndex == findIndex(books, bookId)
    IN /\ req' = Request("PUT", ItemPath, seg)
       /\ IF ~b.defined
          THEN \* destructuring undefined throws a TypeError
               /\ books' = books
               /\ res' = Html(500, "TypeError")
          ELSE IF bookIndex = 0
          THEN /\ books' = books
               /\ res' = BookNotFound
          ELSE /\ books' = [books EXCEPT
                              ![bookIndex] = updatedBook(bookId.val, b.json)]
               /\ res' = Json(200, books'[bookIndex])
       /\ UNCHANGED <<emptyBody, deleted>>

\* app.delete('/api/books/:id')
DeleteBook(seg) ==
    LET bookId == bookIds[seg]
        bookIndex == findIndex(books, bookId)
    IN /\ req' = Request("DELETE", ItemPath, seg)
       /\ IF bookIndex = 0
          THEN /\ books' = books
               /\ res' = BookNotFound
               /\ deleted' = deleted
          ELSE /\ books' = splice(books, bookIndex)
               /\ res' = Json(200, [message |-> "Book deleted successfully",
                                    book |-> books[bookIndex]])
               /\ deleted' = TRUE
       /\ UNCHANGED emptyBody

\* No route is registered for PUT or DELETE on the collection path
\* (part_000:132-141): Express's final handler answers 404 with an HTML page,
\* whatever the body.
NoRoute(method, body) ==
    /\ method \in {"PUT", "DELETE"}
    /\ req' = Request(method, "/api/books", <<>>)
    /\ res' = Html(404, "Cannot " \o method \o " /api/books")
    /\ UNCHANGED <<books, emptyBody, deleted>>

\* The tests' beforeEach: `if (typeof app.resetBooks === 'function')
\* app.resetBooks()`.  server.js assigns no module.exports and defines no
\* resetBooks, so the test is false and nothing is called.
BeforeEach ==
    /\ req' = Request("beforeEach", "", <<>>)
    /\ res' = NoResponse
    /\ UNCHANGED <<books, emptyBody, deleted>>

Next ==
    \/ GetRoot
    \/ GetBooks
    \/ \E seg \in Segs : GetBook(seg)
    \/ \E body \in Bodies : PostBook(body)
    \/ \E seg \in Segs, body \in Bodies : PutBook(seg, body)
    \/ \E seg \in Segs : DeleteBook(seg)
    \/ \E body \in Bodies : NoRoute("PUT", body)
    \/ NoRoute("DELETE", NoBody)
    \/ BeforeEach

Spec == Init /\ [][Next]_vars

----------------------------------------------------------------------------
\* Properties.  A step is the handling of one request: req' is the request
\* and res' the response, books the collection before and books' after it.
\* The request's body is read off the handler's action that the step takes.

\* The request is for a handler of the item route.
OnItem(r, method) == r.method = method /\ r.path = ItemPath

\* The segment names a record of bs: it parses and some record has that id.
Matches(seg, bs) ==
    /\ ~bookIds[seg].nan
    /\ \E i \in 1..Len(bs) : bs[i].id = bookIds[seg].val

\* i is the position of the first record of bs with the id the segment names.
IsFirstMatch(seg, bs, i) ==
    /\ i \in 1..Len(bs)
    /\ bs[i].id = bookIds[seg].val
    /\ \A j \in 1..(i - 1) : bs[j].id # bookIds[seg].val

\* The record rec carries exactly the fields of payload p, besides its id.
FieldsOf(rec, p) ==
    /\ DOMAIN rec \subseteq Fields \cup {"id"}
    /\ \A f \in Fields :
          IF f \in DOMAIN p THEN f \in DOMAIN rec /\ rec[f] = p[f]
          ELSE f \notin DOMAIN rec

\* The last response is that of a DELETE that removed a record.
DeletedOk == req.method = "DELETE" /\ Status(res) = 200

\* The last response is that of a POST that created a record.
CreatedOk == req.method = "POST" /\ Status(res) = 201

\* C1: in every reachable state the ids of the records in the collection are
\* pairwise distinct.
C1_IdsDistinct ==
    \A i, j \in 1..Len(books) : i # j => books[i].id # books[j].id

\* C2: a POST /api/books that carries no body is answered 400 with
\* {error: "Request body required"} and leaves the collection unchanged.
C2_NoBodyRejected ==
    [][ PostBook(NoBody)
          => /\ Status(res') = 400
             /\ Type(res') = "json"
             /\ Body(res') = [error |-> "Request body required"]
             /\ books' = books ]_vars

\* C3: when a DELETE of an id has answered 200, a DELETE of the same id that
\* follows it immediately answers 404.
C3_SecondDeleteNotFound ==
    [][ ( /\ DeletedOk
          /\ OnItem(req', "DELETE")
          /\ bookIds[req'.id] = Num(Body(res).book.id) )
          => Status(res') = 404 ]_vars

\* C4: when a POST has answered 201 with a record of id k, a GET of id k that
\* follows it immediately answers 200 with that very record.
C4_CreatedIsRetrievable ==
    [][ ( /\ CreatedOk
          /\ OnItem(req', "GET")
          /\ bookIds[req'.id] = Num(Body(res).id) )
          => /\ Status(res') = 200
             /\ Body(res') = Body(res) ]_vars

\* C5: the reset the tests call before each scenario sets the collection back
\* to the three seed records, whatever state it is called in.
C5_ResetRestoresSeed ==
    [][ req'.method = "beforeEach" => books' = SeedBooks ]_vars

\* C6: a PUT with a payload on an id that matches a record answers 200 and
\* stores, at the position of the first record with that id, a record with
\* the same id and exactly the payload's fields (omitted fields absent); the
\* other records and the length are unchanged.
C6_ReplaceOverwrites ==
    [][ \A p \in Payloads :
          ( /\ OnItem(req', "PUT")
            /\ Matches(req'.id, books)
            /\ PutBook(req'.id, JsonBody(p)) )
             => \E i \in 1..Len(books) :
                   /\ IsFirstMatch(req'.id, books, i)
                   /\ Status(res') = 200
                   /\ Type(res') = "json"
                   /\ Body(res') = books'[i]
                   /\ Len(books') = Len(books)
                   /\ books'[i].id = books[i].id
                   /\ FieldsOf(books'[i], p)
                   /\ \A j \in 1..Len(books) : j # i => books'[j] = books[j]
      ]_vars

\* C6 witness: a title-only PUT on id 1 of the seed has answered 200; the
\* stored record kept its id and lost author, genre and copiesAvailable.
C6_Witness ==
    /\ req.method = "PUT" /\ Status(res) = 200
    /\ Len(books) = 3
    /\ books[1] = [id |-> 1, title |-> "Partial"]
    /\ books[2] = SeedBooks[2] /\ books[3] = SeedBooks[3]

\* C7: a DELETE on an id that matches a record answers 200 with the message
\* and the removed record, and removes the first record with that id only:
\* the records before it and after it keep their values and their order.
C7_DeleteRemovesOne ==
    [][ (OnItem(req', "DELETE") /\ Matches(req'.id, books))
             => \E i \in 1..Len(books) :
                   /\ IsFirstMatch(req'.id, books, i)
                   /\ Status(res') = 200
                   /\ Type(res') = "json"
                   /\ Body(res') = [message |-> "Book deleted successfully",
                                   book |-> books[i]]
                   /\ Len(books') = Len(books) - 1
                   /\ \A j \in 1..(i - 1) : books'[j] = books[j]
                   /\ \A j \in i..Len(books') : books'[j] = books[j + 1]
      ]_vars

\* C7 witness: a DELETE of id 3 has removed the first of two records with
\* id 3; the second one is still there, between its two untouched neighbours.
C7_Witness ==
    /\ DeletedOk
    /\ Body(res).book = SeedBooks[3]
    /\ Len(books) = 3
    /\ books[1] = SeedBooks[2]
    /\ books[2] = [id |-> 3, title |-> "Partial"]
    /\ books[3] = [id |-> 4, title |-> "Partial"]

\* C8: a POST with a non-empty body answers 201 with a record whose id is the
\* length before the call plus 1 and whose fields are the payload's; the
\* record is appended and the records already there keep their positions.
C8_CreateAppends ==
    [][ \A p \in Payloads :
          (DOMAIN p # {} /\ PostBook(JsonBody(p)))
             => /\ Status(res') = 201
                /\ Type(res') = "json"
                /\ Body(res').id = Len(books) + 1
                /\ FieldsOf(Body(res'), p)
                /\ Len(books') = Len(books) + 1
                /\ books'[Len(books')] = Body(res')
                /\ \A j \in 1..Len(books) : books'[j] = books[j] ]_vars

\* C8 witness: a POST after a DELETE of id 1: the new record got id 3, the
\* length before plus 1, behind the two records that were there.
C8_Witness ==
    /\ CreatedOk
    /\ Len(books) = 3
    /\ books[1] = SeedBooks[2] /\ books[2] = SeedBooks[3]
    /\ books[3] = [id |-> 3, title |-> "Partial"]

\* The step answers a request that names no existing record: a GET, a PUT
\* with its payload or a DELETE on an id that matches no record or does not
\* parse, or a PUT or DELETE on the collection path.
NamesNoRecord ==
    \/ /\ req'.path = ItemPath
       /\ ~Matches(req'.id, books)
       /\ \/ GetBook(req'.id)
          \/ DeleteBook(req'.id)
          \/ \E p \in Payloads : PutBook(req'.id, JsonBody(p))
    \/ \E p \in Payloads : NoRoute("PUT", JsonBody(p))
    \/ NoRoute("DELETE", NoBody)

\* C9: every request that names no existing record is answered 404 with a
\* JSON error message and leaves the collection unchanged.
C9_NotFoundIsJson404 ==
    [][ NamesNoRecord
          => /\ Status(res') = 404
             /\ Type(res') = "json"
             /\ books' = books ]_vars

\* C10: as long as no DELETE has removed a record, the record at position i
\* has id i, so the ids are 1..n in order and pairwise distinct.
C10_IdsArePositions ==
    ~deleted => \A i \in 1..Len(books) : books[i].id = i

\* C10 witness: a fourth record was created and a PUT has replaced a record,
\* with no DELETE so far.
C10_Witness ==
    /\ ~deleted
    /\ Len(books) = 4
    /\ req.method = "PUT" /\ Status(res) = 200
    /\ books[4].id = 4

====
